---- MODULE Spec2Model ----
(***************************************************************************)
(* Model of libaddb/addb-smap-remove.c: addb_smap_remove() deletes the     *)
(* partition files, the largefiles and the directory of a smap database;   *)
(* addb_smap_truncate() turns off backup on the partitions of an open      *)
(* smap, closes it and removes it.                                         *)
(*                                                                         *)
(* Every statement of the two functions that calls out (cm_malloc, unlink, *)
(* addb_largefile_remove, rmdir, addb_tiled_backup, addb_smap_close) is    *)
(* one step; the outcome of the call is chosen by the environment among    *)
(* the outcomes the file system state allows.                              *)
(***************************************************************************)
EXTENDS Integers, Sequences, FiniteSets

(* ---- bounds ---- *)

\* ADDB_GMAP_PARTITIONS_MAX of addbp.h, scaled down
ADDB_GMAP_PARTITIONS_MAX == 3

\* longest directory string tried
MaxPathLen == 3

(* ---- errno values ---- *)

ENOENT == 2
EIO == 5
EBADF == 9
ENOMEM == 12
EACCES == 13
EBUSY == 16
EINVAL == 22
ENOSPC == 28
ENOTEMPTY == 39

\* value of the local "int err" of addb_smap_remove before its first assignment
Uninit == -1

Partitions == 0 .. (ADDB_GMAP_PARTITIONS_MAX - 1)

\* errors the environment may inject into a call that could have succeeded
UnlinkFaults == {EACCES, EBUSY}
LargefileFaults == {EIO}
RmdirFaults == {EACCES}
BackupFaults == {EINVAL, ENOSPC}
CloseFaults == {EBADF}

VARIABLES
  dir,        \* the smap directory exists
  parts,      \* indices of the partition files present in the directory
  large,      \* the directory holds largefiles
  stray,      \* the directory holds a file that belongs to nobody
  smState,    \* "none": no smap object, "open", "closed"
  sm_partition_n,  \* sm->sm_partition_n of the smap object
  part_td,    \* part_td[i]: partition i has a tiled descriptor attached
  backup,     \* backup[i]: backup is turned on for partition i's tiles
  pc,         \* position of the running call, "idle" or "done" outside calls
  op,         \* the top-level call: "none", "remove", "truncate"
  smArg,      \* the sm argument of the truncate call is non-null
  caller,     \* who called addb_smap_remove: "top" or "truncate"
  partition,  \* loop index of addb_smap_remove
  rm_err,     \* local err of addb_smap_remove
  part,       \* loop index of addb_smap_truncate
  tr_err,     \* local err of addb_smap_truncate
  tr_e,       \* local e of addb_smap_truncate
  ret,        \* value returned by the top-level call
  log,        \* records written with cl_log_errno, in order
  rm_trace,   \* calls made by the current addb_smap_remove, in order
  tr_trace,   \* calls made by the current addb_smap_truncate, in order
  fs0,        \* the file system when the top-level call started
  path,       \* the directory string given to addb_smap_remove
  ppc,        \* position in the path construction, "none" outside it
  buf_n,      \* size of the buffer cm_malloc returned, 0 when there is none
  partition_path,    \* bytes written to the buffer, before the final NUL
  partition_base,    \* offset in the buffer where the basename goes
  partition_base_n,  \* room left in the buffer for the basename
  p_partition \* loop index of the path construction

fsvars == <<dir, parts, large, stray>>
smvars == <<smState, sm_partition_n, part_td, backup>>
rmvars == <<caller, partition, rm_err, rm_trace>>
trvars == <<smArg, part, tr_err, tr_e, tr_trace>>
pathvars == <<path, ppc, buf_n, partition_path, partition_base,
              partition_base_n, p_partition>>
mainvars == <<dir, parts, large, stray, smState, sm_partition_n, part_td,
              backup, pc, op, smArg, caller, partition, rm_err, part, tr_err,
              tr_e, ret, log, rm_trace, tr_trace, fs0>>
vars == <<dir, parts, large, stray, smState, sm_partition_n, part_td, backup,
          pc, op, smArg, caller, partition, rm_err, part, tr_err, tr_e, ret,
          log, rm_trace, tr_trace, fs0, path, ppc, buf_n, partition_path,
          partition_base, partition_base_n, p_partition>>

FS == [dir |-> dir, parts |-> parts, large |-> large, stray |-> stray]

Call(o, a, r) == [op |-> o, arg |-> a, rc |-> r]
LogRec(f, c) == [fn |-> f, code |-> c]

\* the directory has no entry left
Empty(ps, lg, st) == ps = {} /\ ~lg /\ ~st

(* ---- the environment: libc and the collaborators ---- *)

\* errno values unlink(partition_path) can produce; 0 is success
unlink_outcomes(d, ps, i) ==
  IF ~d \/ i \notin ps THEN {ENOENT} ELSE {0} \cup UnlinkFaults

\* errno values rmdir(path) can produce; 0 is success
rmdir_outcomes(d, ps, lg, st) ==
  IF ~d THEN {ENOENT}
  ELSE IF ~Empty(ps, lg, st) THEN {ENOTEMPTY}
  ELSE {0} \cup RmdirFaults

\* results of addb_largefile_remove(path, cl, cm): a missing directory or
\* missing largefiles are a success
largefile_outcomes(d) ==
  IF ~d THEN {0} ELSE {0} \cup LargefileFaults

(* ---- initial states ---- *)

NoTd == [i \in {} |-> FALSE]

\* size_t partition_base_n = 80
BaseCapacity == 80

\* no path is under construction
PathIdle ==
  /\ path = <<>>
  /\ ppc = "none"
  /\ buf_n = 0
  /\ partition_path = <<>>
  /\ partition_base = 0
  /\ partition_base_n = BaseCapacity
  /\ p_partition = 0

Init ==
  /\ PathIdle
  /\ \E d \in BOOLEAN, k \in 0 .. ADDB_GMAP_PARTITIONS_MAX,
        lg \in BOOLEAN, st \in BOOLEAN :
       /\ dir = d
       /\ parts = IF d THEN 0 .. (k - 1) ELSE {}
       /\ large = (d /\ lg)
       /\ stray = (d /\ st)
       /\ \/ /\ smState = "none"
             /\ sm_partition_n = 0
             /\ part_td = NoTd
             /\ backup = NoTd
          \/ /\ d
             /\ smState = "open"
             /\ sm_partition_n = k
             /\ part_td \in [0 .. (k - 1) -> BOOLEAN]
             /\ backup = part_td
  /\ pc = "idle"
  /\ op = "none"
  /\ smArg = FALSE
  /\ caller = "top"
  /\ partition = 0
  /\ rm_err = Uninit
  /\ part = 0
  /\ tr_err = 0
  /\ tr_e = 0
  /\ ret = 0
  /\ log = <<>>
  /\ rm_trace = <<>>
  /\ tr_trace = <<>>
  /\ fs0 = FS

Idle == pc \in {"idle", "done"}

\* the smap object as the next top-level call finds it: a closed smap has
\* been freed by addb_smap_close, its fields are gone
ForgetClosed ==
  /\ smState' = smState
  /\ sm_partition_n' = IF smState = "closed" THEN 0 ELSE sm_partition_n
  /\ part_td' = IF smState = "closed" THEN NoTd ELSE part_td
  /\ backup' = IF smState = "closed" THEN NoTd ELSE backup

(* ---- addb_smap_remove ---- *)

\* entry of addb_smap_remove: locals as declared, nothing called yet
EnterRemove(from) ==
  /\ pc' = "rm_alloc"
  /\ caller' = from
  /\ partition' = 0
  /\ rm_err' = Uninit
  /\ rm_trace' = <<>>

\* a caller outside this file calls addb_smap_remove(addb, path); the smap
\* is not open (the caller has closed it)
CallRemove ==
  /\ UNCHANGED pathvars
  /\ Idle
  /\ smState # "open"
  /\ EnterRemove("top")
  /\ op' = "remove"
  /\ fs0' = FS
  /\ log' = <<>>
  /\ tr_trace' = <<>>
  /\ ret' = 0
  /\ ForgetClosed
  /\ UNCHANGED <<fsvars, smArg, part, tr_err, tr_e>>

\* variant: the failed allocation is logged, and the function carries on
RmAlloc_Ignored ==
  /\ UNCHANGED pathvars
  /\ pc = "rm_alloc"
  /\ \E ok \in BOOLEAN :
       /\ rm_trace' = Append(rm_trace,
                             Call("cm_malloc", 0, IF ok THEN 0 ELSE ENOMEM))
       /\ log' = IF ok THEN log ELSE Append(log, LogRec("cm_malloc", ENOMEM))
       /\ pc' = "rm_loop"
  /\ UNCHANGED <<fsvars, smvars, op, caller, partition, rm_err, trvars, ret,
                 fs0>>

\* partition_path = cm_malloc(...); if (!partition_path) { log; return err; }
RmAlloc ==
  /\ UNCHANGED pathvars
  /\ pc = "rm_alloc"
  /\ \E ok \in BOOLEAN :
       IF ok
         THEN /\ rm_trace' = Append(rm_trace, Call("cm_malloc", 0, 0))
              /\ pc' = "rm_loop"
              /\ UNCHANGED <<rm_err, log>>
         ELSE /\ rm_trace' = Append(rm_trace, Call("cm_malloc", 0, ENOMEM))
              /\ rm_err' = ENOMEM
              /\ log' = Append(log, LogRec("cm_malloc", ENOMEM))
              /\ pc' = "rm_ret"
  /\ UNCHANGED <<fsvars, smvars, op, caller, partition, trvars, ret, fs0>>

\* variant: a missing partition file is an error like any other
UnlinkErr_Strict(errno) == errno

\* err after a failed unlink: ENOENT counts as no error
UnlinkErr(errno) == IF errno = ENOENT THEN 0 ELSE errno

\* variant: the loop stops at the first partition it cannot remove
NextPartition_Break(i, errno) ==
  IF errno \notin {0, ENOENT} THEN ADDB_GMAP_PARTITIONS_MAX ELSE i + 1

\* the loop goes on to the next partition whatever unlink returned
NextPartition(i, errno) == i + 1

\* one iteration of the partition loop
RmUnlink ==
  /\ UNCHANGED pathvars
  /\ pc = "rm_loop"
  /\ partition < ADDB_GMAP_PARTITIONS_MAX
  /\ \E errno \in unlink_outcomes(dir, parts, partition) :
       /\ rm_trace' = Append(rm_trace, Call("unlink", partition, errno))
       /\ IF errno = 0
            THEN /\ parts' = parts \ {partition}
                 /\ UNCHANGED <<rm_err, log>>
            ELSE /\ parts' = parts
                 /\ rm_err' = UnlinkErr(errno)
                 /\ log' = IF UnlinkErr(errno) = 0 THEN log
                           ELSE Append(log, LogRec("unlink", errno))
       /\ partition' = NextPartition(partition, errno)
  /\ UNCHANGED <<dir, large, stray, smvars, pc, op, caller, trvars, ret, fs0>>

\* variant: an error of the partition loop is kept, as at the rmdir
LargefileErr_Keep(err, rc) == IF err \notin {0, Uninit} THEN err ELSE rc

\* err = addb_largefile_remove(...): the result replaces what err held
LargefileErr(err, rc) == rc

\* variant: a failed largefile removal returns at once
AfterLargefile_Return(rc) == IF rc # 0 THEN "rm_ret" ELSE "rm_rmdir"

\* where addb_smap_remove goes after the largefile step: on to rmdir,
\* whatever the step returned
AfterLargefile(rc) == "rm_rmdir"

\* after the loop: cm_free, then addb_largefile_remove
RmLargefile ==
  /\ UNCHANGED pathvars
  /\ pc = "rm_loop"
  /\ ~(partition < ADDB_GMAP_PARTITIONS_MAX)
  /\ \E rc \in largefile_outcomes(dir) :
       /\ rm_trace' = Append(rm_trace, Call("addb_largefile_remove", 0, rc))
       /\ large' = IF rc = 0 THEN FALSE ELSE large
       /\ rm_err' = LargefileErr(rm_err, rc)
       /\ log' = IF LargefileErr(rm_err, rc) # 0
                   THEN Append(log, LogRec("addb_largefile_remove", rc))
                   ELSE log
       /\ pc' = AfterLargefile(rc)
  /\ UNCHANGED <<dir, parts, stray, smvars, op, caller, partition, trvars,
                 ret, fs0>>

\* variant: rmdir of a directory that is not there is not an error
RmdirErr_MissingOk(err, errno) ==
  IF err = 0 /\ errno # ENOENT THEN errno ELSE err

\* variant: the rmdir failure is logged but not returned
RmdirErr_Dropped(err, errno) == err

\* if (!err) err = errno;
RmdirErr(err, errno) == IF err = 0 THEN errno ELSE err

\* if (rmdir(path)) { ...; log }
RmRmdir ==
  /\ UNCHANGED pathvars
  /\ pc = "rm_rmdir"
  /\ \E errno \in rmdir_outcomes(dir, parts, large, stray) :
       /\ rm_trace' = Append(rm_trace, Call("rmdir", 0, errno))
       /\ IF errno = 0
            THEN /\ dir' = FALSE
                 /\ UNCHANGED <<rm_err, log>>
            ELSE /\ dir' = dir
                 /\ rm_err' = RmdirErr(rm_err, errno)
                 /\ log' = Append(log, LogRec("rmdir", errno))
  /\ pc' = "rm_ret"
  /\ UNCHANGED <<parts, large, stray, smvars, op, caller, partition, trvars,
                 ret, fs0>>

\* return err; to the outside caller, or into e of addb_smap_truncate
RmReturn ==
  /\ UNCHANGED pathvars
  /\ pc = "rm_ret"
  /\ IF caller = "top"
       THEN /\ ret' = rm_err
            /\ pc' = "done"
            /\ UNCHANGED tr_e
       ELSE /\ tr_e' = rm_err
            /\ pc' = "tr_removed"
            /\ UNCHANGED ret
  /\ UNCHANGED <<fsvars, smvars, op, rmvars, smArg, part, tr_err, tr_trace,
                 log, fs0>>

(* ---- addb_smap_truncate ---- *)

\* variant: the directory is removed even without a smap
TruncateNull_Removes ==
  /\ UNCHANGED pathvars
  /\ Idle
  /\ op' = "truncate"
  /\ smArg' = FALSE
  /\ ret' = 0
  /\ fs0' = FS
  /\ log' = <<>>
  /\ tr_trace' = <<>>
  /\ EnterRemove("top")
  /\ ForgetClosed
  /\ UNCHANGED <<fsvars, part, tr_err, tr_e>>

\* addb_smap_truncate(NULL, path): the if (sm) block is skipped, return 0
TruncateNull ==
  /\ UNCHANGED pathvars
  /\ Idle
  /\ op' = "truncate"
  /\ smArg' = FALSE
  /\ ret' = 0
  /\ pc' = "done"
  /\ fs0' = FS
  /\ log' = <<>>
  /\ rm_trace' = <<>>
  /\ tr_trace' = <<>>
  /\ ForgetClosed
  /\ UNCHANGED <<fsvars, caller, partition, rm_err, part, tr_err, tr_e>>

\* addb_smap_truncate(sm, path) on an open smap: part = sm->sm_partition,
\* err = 0
TruncateEnter ==
  /\ UNCHANGED pathvars
  /\ Idle
  /\ smState = "open"
  /\ op' = "truncate"
  /\ smArg' = TRUE
  /\ part' = 0
  /\ tr_err' = 0
  /\ tr_e' = 0
  /\ ret' = 0
  /\ pc' = "tr_loop"
  /\ fs0' = FS
  /\ log' = <<>>
  /\ rm_trace' = <<>>
  /\ tr_trace' = <<>>
  /\ UNCHANGED <<fsvars, smvars, caller, partition, rm_err>>

\* variant: the loop runs over every partition
PartEnd_All(n) == n

\* part_end = sm->sm_partition + sm->sm_partition_n - 1, as an index
PartEnd(n) == n - 1

\* variant: the last error wins
Accumulate_Last(err, e) == e

\* if (!err) err = e;
Accumulate(err, e) == IF err = 0 THEN e ELSE err

\* one iteration of the backup loop
TrBackup ==
  /\ UNCHANGED pathvars
  /\ pc = "tr_loop"
  /\ part < PartEnd(sm_partition_n)
  /\ IF part_td[part]
       THEN \E e \in {0} \cup BackupFaults :
              /\ tr_trace' = Append(tr_trace, Call("addb_tiled_backup", part, e))
              /\ tr_e' = e
              /\ IF e # 0
                   THEN /\ tr_err' = Accumulate(tr_err, e)
                        /\ log' = Append(log, LogRec("addb_tiled_backup", e))
                        /\ UNCHANGED backup
                   ELSE /\ backup' = [backup EXCEPT ![part] = FALSE]
                        /\ UNCHANGED <<tr_err, log>>
       ELSE UNCHANGED <<tr_trace, tr_e, tr_err, log, backup>>
  /\ part' = part + 1
  /\ UNCHANGED <<fsvars, smState, sm_partition_n, part_td, pc, op, smArg,
                 rmvars, ret, fs0>>

\* state of the smap object after addb_smap_close(sm): its descriptors are
\* released, whatever the call returns
addb_smap_close(s) == "closed"

\* variant: a failed close gives up before the remove
AfterClose_Abort(e) == IF e # 0 THEN "done" ELSE "tr_remove"

\* where addb_smap_truncate goes after the close: on to addb_smap_remove,
\* whatever the close returned
AfterClose(e) == "tr_remove"

\* variant: the smap is removed without being closed
TrClose_Skipped ==
  /\ UNCHANGED pathvars
  /\ pc = "tr_loop"
  /\ ~(part < PartEnd(sm_partition_n))
  /\ pc' = "tr_remove"
  /\ UNCHANGED <<fsvars, smvars, op, smArg, part, tr_err, tr_e, tr_trace,
                 rmvars, ret, log, fs0>>

\* e = addb_smap_close(sm); if (e) { if (!err) err = e; log }
TrClose ==
  /\ UNCHANGED pathvars
  /\ pc = "tr_loop"
  /\ ~(part < PartEnd(sm_partition_n))
  /\ \E e \in {0} \cup CloseFaults :
       /\ tr_trace' = Append(tr_trace, Call("addb_smap_close", 0, e))
       /\ tr_e' = e
       /\ tr_err' = IF e # 0 THEN Accumulate(tr_err, e) ELSE tr_err
       /\ log' = IF e # 0 THEN Append(log, LogRec("addb_smap_close", e)) ELSE log
       /\ pc' = AfterClose(e)
  /\ smState' = addb_smap_close(smState)
  /\ UNCHANGED <<fsvars, sm_partition_n, part_td, backup, op, smArg, part,
                 rmvars, ret, fs0>>

\* e = addb_smap_remove(addb, path): the call
TrCallRemove ==
  /\ UNCHANGED pathvars
  /\ pc = "tr_remove"
  /\ EnterRemove("truncate")
  /\ UNCHANGED <<fsvars, smvars, op, trvars, ret, log, fs0>>

\* variant: only the first error of the call is logged
TrRemoved_LogFirst ==
  /\ UNCHANGED pathvars
  /\ pc = "tr_removed"
  /\ tr_trace' = Append(tr_trace, Call("addb_smap_remove", 0, tr_e))
  /\ tr_err' = IF tr_e # 0 THEN Accumulate(tr_err, tr_e) ELSE tr_err
  /\ log' = IF tr_e # 0 /\ tr_err = 0
              THEN Append(log, LogRec("addb_smap_remove", tr_e))
              ELSE log
  /\ ret' = tr_err'
  /\ pc' = "done"
  /\ UNCHANGED <<fsvars, smvars, op, smArg, part, tr_e, rmvars, fs0>>

\* if (e) { if (!err) err = e; log } return err;
TrRemoved ==
  /\ UNCHANGED pathvars
  /\ pc = "tr_removed"
  /\ tr_trace' = Append(tr_trace, Call("addb_smap_remove", 0, tr_e))
  /\ tr_err' = IF tr_e # 0 THEN Accumulate(tr_err, tr_e) ELSE tr_err
  /\ log' = IF tr_e # 0 THEN Append(log, LogRec("addb_smap_remove", tr_e))
            ELSE log
  /\ ret' = tr_err'
  /\ pc' = "done"
  /\ UNCHANGED <<fsvars, smvars, op, smArg, part, tr_e, rmvars, fs0>>

Next ==
  \/ CallRemove \/ RmAlloc \/ RmUnlink \/ RmLargefile \/ RmRmdir \/ RmReturn
  \/ TruncateNull \/ TruncateEnter \/ TrBackup \/ TrClose \/ TrCallRemove
  \/ TrRemoved

Spec == Init /\ [][Next]_vars

(* ---- the partition path of addb_smap_remove ---- *)

\* the characters of a directory string: two letters and the separator
Chars == {"d", "b", "/"}

\* the directory strings tried
Paths == UNION {[1 .. n -> Chars] : n \in 0 .. MaxPathLen}

Digits == <<"0", "1", "2", "3", "4", "5", "6", "7", "8", "9">>

\* what addb_smap_partition_basename(addb, i, buf, n) writes at buf: a name
\* of its own for partition i, without a separator, cut to n - 1 characters
\* to leave room for the NUL
addb_smap_partition_basename(i, n) ==
  LET name == <<"p", Digits[i + 1]>>
  IN IF n <= 0 THEN <<>>
     ELSE IF Len(name) <= n - 1 THEN name ELSE SubSeq(name, 1, n - 1)

\* variant: the separator is always appended
Separated_Always(p, n) ==
  [buf |-> p \o <<"/">>, base |-> Len(p) + 1, base_n |-> n - 1]

\* variant: the separator is appended without giving up a byte of room
Separated_NoDecrement(p, n) ==
  IF Len(p) > 0 /\ p[Len(p)] # "/"
    THEN [buf |-> p \o <<"/">>, base |-> Len(p) + 1, base_n |-> n]
    ELSE [buf |-> p, base |-> Len(p), base_n |-> n]

\* memcpy(partition_path, path, path_n); partition_base = partition_path +
\* path_n; if (partition_base > partition_path && partition_base[-1] != '/')
\* { *partition_base++ = '/'; partition_base_n--; }
Separated(p, n) ==
  IF Len(p) > 0 /\ p[Len(p)] # "/"
    THEN [buf |-> p \o <<"/">>, base |-> Len(p) + 1, base_n |-> n - 1]
    ELSE [buf |-> p, base |-> Len(p), base_n |-> n]

\* the path handed to unlink for partition i of the directory string p
PartitionPath(p, i) ==
  LET s == Separated(p, BaseCapacity)
  IN s.buf \o addb_smap_partition_basename(i, s.base_n)

\* addb_smap_remove(addb, path) is called with a directory string
PathInit ==
  /\ dir = FALSE /\ parts = {} /\ large = FALSE /\ stray = FALSE
  /\ smState = "none" /\ sm_partition_n = 0 /\ part_td = NoTd /\ backup = NoTd
  /\ pc = "idle" /\ op = "none" /\ smArg = FALSE /\ caller = "top"
  /\ partition = 0 /\ rm_err = Uninit /\ part = 0 /\ tr_err = 0 /\ tr_e = 0
  /\ ret = 0 /\ log = <<>> /\ rm_trace = <<>> /\ tr_trace = <<>>
  /\ fs0 = FS
  /\ path \in Paths
  /\ ppc = "p_alloc"
  /\ buf_n = 0
  /\ partition_path = <<>>
  /\ partition_base = 0
  /\ partition_base_n = BaseCapacity
  /\ p_partition = 0

\* partition_path = cm_malloc(addb->addb_cm, path_n + partition_base_n);
\* a failed allocation ends the call
PathAlloc ==
  /\ ppc = "p_alloc"
  /\ \E ok \in BOOLEAN :
       IF ok
         THEN /\ buf_n' = Len(path) + partition_base_n
              /\ ppc' = "p_copy"
         ELSE /\ buf_n' = 0
              /\ ppc' = "p_done"
  /\ UNCHANGED <<mainvars, path, partition_path, partition_base,
                 partition_base_n, p_partition>>

\* the directory string is copied and the separator appended if needed
PathCopy ==
  /\ ppc = "p_copy"
  /\ LET s == Separated(path, partition_base_n)
     IN /\ partition_path' = s.buf
        /\ partition_base' = s.base
        /\ partition_base_n' = s.base_n
  /\ ppc' = "p_loop"
  /\ UNCHANGED <<mainvars, path, buf_n, p_partition>>

\* addb_smap_partition_basename(addb, partition, partition_base,
\* partition_base_n), then unlink(partition_path)
PathBasename ==
  /\ ppc = "p_loop"
  /\ p_partition < ADDB_GMAP_PARTITIONS_MAX
  /\ partition_path' =
       SubSeq(partition_path, 1, partition_base)
       \o addb_smap_partition_basename(p_partition, partition_base_n)
  /\ p_partition' = p_partition + 1
  /\ UNCHANGED <<mainvars, path, ppc, buf_n, partition_base, partition_base_n>>

\* the loop is over: cm_free(addb->addb_cm, partition_path)
PathFree ==
  /\ ppc = "p_loop"
  /\ ~(p_partition < ADDB_GMAP_PARTITIONS_MAX)
  /\ ppc' = "p_done"
  /\ buf_n' = 0
  /\ UNCHANGED <<mainvars, path, partition_path, partition_base,
                 partition_base_n, p_partition>>

PathNext == PathAlloc \/ PathCopy \/ PathBasename \/ PathFree

PathSpec == PathInit /\ [][PathNext]_vars

(* ---- vocabulary of the properties ---- *)

\* addb_smap_remove is about to return rm_err, to either caller
RmReturns == pc = "rm_ret"

\* addb_smap_truncate(sm, path) with a non-null sm has returned ret
TruncateDone == pc = "done" /\ op = "truncate" /\ smArg

\* positions of the calls to o in the trace t
At(t, o) == {i \in DOMAIN t : t[i].op = o}

\* the scratch buffer was allocated
AllocOk == \E i \in At(rm_trace, "cm_malloc") : rm_trace[i].rc = 0

\* positions of the unlinks that failed for another reason than ENOENT
FailedUnlinkAt ==
  {i \in At(rm_trace, "unlink") : rm_trace[i].rc \notin {0, ENOENT}}

\* the partitions whose unlink failed for another reason than ENOENT
FailedUnlinks == {rm_trace[i].arg : i \in FailedUnlinkAt}

Least(S) == CHOOSE x \in S : \A y \in S : x <= y

\* the result of the only call to o in the trace, 0 when it was not called
RcOf(t, o) == IF At(t, o) = {} THEN 0 ELSE t[Least(At(t, o))].rc

\* the first nonzero result in the trace t, 0 when there is none
FirstError(t) ==
  LET bad == {i \in DOMAIN t : t[i].rc # 0}
  IN IF bad = {} THEN 0 ELSE t[Least(bad)].rc

\* no call of the current addb_smap_remove failed, a missing partition file
\* aside
NoFault ==
  \A i \in DOMAIN rm_trace :
    \/ rm_trace[i].rc = 0
    \/ rm_trace[i].op = "unlink" /\ rm_trace[i].rc = ENOENT

\* the operations of a complete addb_smap_remove, in order
FullRemove ==
  <<"cm_malloc">> \o [i \in 1 .. ADDB_GMAP_PARTITIONS_MAX |-> "unlink"]
  \o <<"addb_largefile_remove", "rmdir">>

Ops(t) == [i \in DOMAIN t |-> t[i].op]

LoggedFns == {log[i].fn : i \in DOMAIN log}

(* ---- C1 ---- *)

\* C1 as stated: addb_smap_remove on a path whose directory and files are
\* already gone returns 0 and changes nothing on disk (taken with the scratch
\* buffer allocated).
C1_RemoveMissingReturnsZero ==
  (RmReturns /\ caller = "top" /\ ~fs0.dir /\ AllocOk)
    => (rm_err = 0 /\ FS = fs0)

\* C1 amended: addb_smap_remove on a path whose directory and files are
\* already gone changes nothing on disk and returns a nonzero error: the
\* ENOENT of rmdir when the allocation and the largefile removal succeeded.
C1_RemoveMissingFails ==
  (RmReturns /\ caller = "top" /\ ~fs0.dir)
    => /\ FS = fs0
       /\ rm_err # 0
       /\ (AllocOk /\ RcOf(rm_trace, "addb_largefile_remove") = 0)
            => rm_err = ENOENT

C1_Witness ==
  /\ RmReturns /\ caller = "top" /\ ~fs0.dir /\ AllocOk
  /\ RcOf(rm_trace, "rmdir") = ENOENT
  /\ rm_err = ENOENT

(* ---- C2 ---- *)

\* the error of the partition step: the first unlink error that is not ENOENT
PartitionStepErr ==
  IF FailedUnlinkAt = {} THEN 0 ELSE rm_trace[Least(FailedUnlinkAt)].rc

\* C2: addb_smap_remove returns 0 when every step succeeds, else the error of
\* the first failed step in the order partition unlinks, largefile removal,
\* rmdir.
C2_FirstFailedStepReturned ==
  (RmReturns /\ AllocOk)
    => rm_err =
         IF PartitionStepErr # 0 THEN PartitionStepErr
         ELSE IF RcOf(rm_trace, "addb_largefile_remove") # 0
                THEN RcOf(rm_trace, "addb_largefile_remove")
                ELSE RcOf(rm_trace, "rmdir")

(* ---- C3 ---- *)

\* C3: when the unlink of exactly one existing partition file j fails with
\* another error than ENOENT, addb_smap_remove returns nonzero and file j is
\* the only partition file left.
C3_PartialFailure ==
  (RmReturns /\ Cardinality(FailedUnlinks) = 1)
    => (rm_err # 0 /\ parts = FailedUnlinks /\ FailedUnlinks \subseteq fs0.parts)

C3_Witness ==
  /\ RmReturns
  /\ FailedUnlinks = {1}
  /\ {0, 1, 2} \subseteq fs0.parts
  /\ parts = {1}
  /\ rm_err # 0

(* ---- C4 ---- *)

\* C4: with partition files 0..k-1, no stray file and no failing call,
\* addb_smap_remove returns 0, leaves no partition file, and reports no
\* unlink error for the missing files k..ADDB_GMAP_PARTITIONS_MAX-1.
C4_RemovesKPartitions ==
  (/\ RmReturns /\ AllocOk /\ NoFault
   /\ fs0.dir /\ ~fs0.stray
   /\ \E k \in 0 .. ADDB_GMAP_PARTITIONS_MAX : fs0.parts = 0 .. (k - 1))
    => (rm_err = 0 /\ parts = {} /\ "unlink" \notin LoggedFns)

C4_Witness ==
  /\ RmReturns /\ AllocOk /\ NoFault
  /\ fs0.dir /\ ~fs0.stray /\ fs0.parts = {0, 1}
  /\ \E i \in At(rm_trace, "unlink") : rm_trace[i].rc = ENOENT
  /\ \E i \in At(rm_trace, "unlink") : rm_trace[i].rc = 0
  /\ rm_err = 0 /\ parts = {}

(* ---- C5 ---- *)

\* C5 as stated: every addb_smap_remove attempts the partition unlinks, the
\* largefile removal and the rmdir before it returns.
C5_AllStepsAlways ==
  RmReturns => Ops(rm_trace) = FullRemove

\* C5 amended: once the scratch buffer is allocated, addb_smap_remove attempts
\* every partition unlink, then the largefile removal, then the rmdir,
\* whatever failed on the way; when the allocation fails it returns without
\* attempting any of them.
C5_AllStepsAfterAlloc ==
  RmReturns =>
    IF AllocOk THEN Ops(rm_trace) = FullRemove
    ELSE Ops(rm_trace) = <<"cm_malloc">> /\ FS = fs0

C5_Witness ==
  /\ RmReturns /\ AllocOk
  /\ FailedUnlinks # {}
  /\ RcOf(rm_trace, "addb_largefile_remove") # 0
  /\ At(rm_trace, "rmdir") # {}

(* ---- C6 ---- *)

\* place of a call in the order of addb_smap_truncate
Rank(o) ==
  IF o = "addb_tiled_backup" THEN 0 ELSE IF o = "addb_smap_close" THEN 1 ELSE 2

\* the calls made so far come in the order backups, close, remove, with at
\* most one close and one remove
InTruncateOrder(t) ==
  /\ \A i, j \in DOMAIN t : i < j => Rank(t[i].op) <= Rank(t[j].op)
  /\ Cardinality(At(t, "addb_smap_close")) <= 1
  /\ Cardinality(At(t, "addb_smap_remove")) <= 1

\* C6: in addb_smap_truncate on a non-null smap the backup calls come first,
\* then exactly one addb_smap_close, then exactly one addb_smap_remove; no
\* step of the removal runs and nothing on disk changes before the close;
\* close and remove are performed whatever failed before them.
C6_TruncateOrder ==
  (op = "truncate" /\ smArg) =>
    /\ InTruncateOrder(tr_trace)
    /\ (rm_trace # <<>> \/ FS # fs0 \/ pc = "rm_alloc")
         => Cardinality(At(tr_trace, "addb_smap_close")) = 1
    /\ pc = "done"
         => /\ Cardinality(At(tr_trace, "addb_smap_close")) = 1
            /\ Cardinality(At(tr_trace, "addb_smap_remove")) = 1

C6_Witness ==
  /\ TruncateDone
  /\ \E i \in At(tr_trace, "addb_tiled_backup") : tr_trace[i].rc # 0
  /\ RcOf(tr_trace, "addb_smap_close") # 0
  /\ At(tr_trace, "addb_smap_remove") # {}
  /\ Ops(rm_trace) = FullRemove
  /\ FS # fs0

(* ---- C7 ---- *)

\* C7: addb_smap_truncate on a non-null smap returns the first nonzero result
\* among its backup calls, its close and its remove, in that order, and 0
\* exactly when none of them failed.
C7_TruncateFirstError ==
  TruncateDone =>
    /\ ret = FirstError(tr_trace)
    /\ (ret = 0) <=> (\A i \in DOMAIN tr_trace : tr_trace[i].rc = 0)

C7_Witness ==
  /\ TruncateDone
  /\ \E i, j \in At(tr_trace, "addb_tiled_backup") :
       /\ i < j
       /\ tr_trace[i].rc # 0
       /\ tr_trace[j].rc # 0
       /\ tr_trace[i].rc # tr_trace[j].rc
       /\ ret = tr_trace[i].rc
  /\ RcOf(tr_trace, "addb_smap_close") # 0
  /\ RcOf(tr_trace, "addb_smap_remove") # 0

(* ---- C8 ---- *)

\* C8 as stated: after addb_smap_truncate returns on an open smap, the smap
\* is open again.
C8_HandleOpenAfterTruncate ==
  TruncateDone => smState = "open"

\* C8 amended: after addb_smap_truncate returns on an open smap, the smap has
\* been closed once and is not reopened: the handle is left closed.
C8_HandleClosedAfterTruncate ==
  TruncateDone =>
    /\ smState = "closed"
    /\ Cardinality(At(tr_trace, "addb_smap_close")) = 1

C8_Witness ==
  /\ TruncateDone
  /\ ret = 0
  /\ smState = "closed"
  /\ fs0.dir /\ fs0.parts # {}
  /\ ~dir

(* ---- C9 ---- *)

\* C9: addb_smap_truncate with a null smap returns 0 and does nothing: no
\* call, no log record, no change on disk or to a smap.
C9_TruncateNullNoop ==
  (op = "truncate" /\ ~smArg) =>
    /\ pc = "done"
    /\ ret = 0
    /\ tr_trace = <<>>
    /\ rm_trace = <<>>
    /\ log = <<>>
    /\ FS = fs0

C9_Witness ==
  /\ pc = "done" /\ op = "truncate" /\ ~smArg
  /\ ret = 0
  /\ dir /\ parts # {}
  /\ FS = fs0

(* ---- C10 ---- *)

\* C10: with a stray file in the directory, addb_smap_remove returns the
\* nonzero rmdir error although every partition file and largefile was
\* removed; the stray file and the directory stay.
C10_StrayFileFailsRmdir ==
  (RmReturns /\ AllocOk /\ fs0.dir /\ fs0.stray
   /\ FailedUnlinks = {} /\ RcOf(rm_trace, "addb_largefile_remove") = 0)
    => /\ rm_err # 0
       /\ rm_err = RcOf(rm_trace, "rmdir")
       /\ parts = {} /\ ~large
       /\ stray /\ dir

C10_Witness ==
  /\ RmReturns /\ AllocOk /\ fs0.dir /\ fs0.stray
  /\ fs0.parts # {} /\ fs0.large
  /\ parts = {} /\ ~large
  /\ rm_err = ENOTEMPTY
  /\ stray /\ dir

(* ---- C11 ---- *)

\* the call failed: a nonzero result, a missing partition file aside
Failed(c) == c.rc # 0 /\ ~(c.op = "unlink" /\ c.rc = ENOENT)

\* the log records the failures of the trace t call for, in order
LogsOf(t) ==
  LET f == SelectSeq(t, Failed)
  IN [i \in DOMAIN f |-> LogRec(f[i].op, f[i].rc)]

IsRemoveCall(c) == c.op = "addb_smap_remove"
NotRemoveCall(c) == c.op # "addb_smap_remove"

\* C11: every failing step is logged, once and in order, whether or not its
\* code is the one returned: the failed backups and close of truncate, then
\* the failed allocation or unlinks, largefile removal and rmdir of remove,
\* then the failed remove of truncate.
C11_EveryFailureLogged ==
  log = LogsOf(SelectSeq(tr_trace, NotRemoveCall)) \o LogsOf(rm_trace)
        \o LogsOf(SelectSeq(tr_trace, IsRemoveCall))

C11_Witness ==
  /\ TruncateDone
  /\ \E i \in At(tr_trace, "addb_tiled_backup") : tr_trace[i].rc # 0
  /\ RcOf(tr_trace, "addb_smap_close") # 0
  /\ Cardinality(FailedUnlinkAt) = 2
  /\ RcOf(rm_trace, "addb_largefile_remove") # 0
  /\ RcOf(rm_trace, "rmdir") # 0
  /\ Len(log) = 7
  /\ log[7] = LogRec("addb_smap_remove", EIO)
  /\ ret # EIO

(* ---- C13 ---- *)

\* the arguments of the backup calls made, in order
BackupArgs ==
  LET b == SelectSeq(tr_trace, LAMBDA c : c.op = "addb_tiled_backup")
  IN [i \in DOMAIN b |-> b[i].arg]

\* the partitions 0..N-2 that have a tiled descriptor
BackupDue == {i \in 0 .. (sm_partition_n - 2) : part_td[i]}

\* C13: once the backup loop of addb_smap_truncate is over, addb_tiled_backup
\* has been called exactly once, in increasing order, for each partition of
\* 0..N-2 that has a tiled descriptor, and for no other; for N = 0 and N = 1
\* it has not been called.
C13_BackupPass ==
  (op = "truncate" /\ smArg) =>
    /\ \A i, j \in DOMAIN BackupArgs : i < j => BackupArgs[i] < BackupArgs[j]
    /\ {BackupArgs[i] : i \in DOMAIN BackupArgs} \subseteq BackupDue
    /\ pc # "tr_loop"
         => /\ {BackupArgs[i] : i \in DOMAIN BackupArgs} = BackupDue
            /\ sm_partition_n <= 1 => BackupArgs = <<>>

C13_Witness ==
  /\ TruncateDone
  /\ sm_partition_n = 3
  /\ \A i \in 0 .. 2 : part_td[i]
  /\ BackupArgs = <<0, 1>>

(* ---- C14 ---- *)

\* C14: with the scratch buffer allocated, addb_smap_remove returns the
\* result of the largefile removal if that is nonzero, else the errno of a
\* failed rmdir, else 0; the errors of the partition unlinks play no part.
C14_ReturnIgnoresUnlinks ==
  (RmReturns /\ AllocOk) =>
    rm_err = IF RcOf(rm_trace, "addb_largefile_remove") # 0
               THEN RcOf(rm_trace, "addb_largefile_remove")
               ELSE RcOf(rm_trace, "rmdir")

C14_Witness ==
  /\ RmReturns /\ AllocOk
  /\ \E i \in FailedUnlinkAt : rm_trace[i].rc = EBUSY
  /\ RcOf(rm_trace, "addb_largefile_remove") = 0
  /\ rm_err = ENOTEMPTY

(* ---- C15 ---- *)

\* C15: when addb_smap_remove returns 0, the directory and every partition
\* file are gone; when addb_smap_truncate on a non-null smap returns 0, the
\* smap is closed and its directory and partition files are gone.
C15_SuccessImpliesRemoved ==
  /\ (RmReturns /\ rm_err = 0) => (~dir /\ parts = {})
  /\ (pc = "done" /\ op = "remove" /\ ret = 0) => (~dir /\ parts = {})
  /\ (TruncateDone /\ ret = 0) => (smState = "closed" /\ ~dir /\ parts = {})

C15_Witness ==
  /\ TruncateDone /\ ret = 0
  /\ fs0.dir /\ fs0.parts = {0, 1} /\ fs0.large
  /\ smState = "closed" /\ ~dir /\ parts = {}

(* ---- C16 ---- *)

\* C16: when the scratch buffer cannot be allocated, addb_smap_remove returns
\* the allocation error without an unlink, a largefile removal or a rmdir,
\* and the file system is as before; addb_smap_truncate then ends with the
\* smap closed, the files still on disk, and an error: the allocation error
\* unless a backup or the close had failed before.
C16_AllocFailure ==
  /\ (RmReturns /\ ~AllocOk)
       => /\ rm_err = ENOMEM
          /\ Ops(rm_trace) = <<"cm_malloc">>
          /\ FS = fs0
  /\ (TruncateDone /\ ~AllocOk)
       => /\ smState = "closed"
          /\ FS = fs0
          /\ RcOf(tr_trace, "addb_smap_remove") = ENOMEM
          /\ ret # 0
          /\ (\A i \in DOMAIN tr_trace :
                NotRemoveCall(tr_trace[i]) => tr_trace[i].rc = 0)
               => ret = ENOMEM

C16_Witness ==
  /\ TruncateDone /\ ~AllocOk
  /\ ret = ENOMEM
  /\ smState = "closed"
  /\ dir /\ parts = {0, 1, 2} /\ FS = fs0

(* ---- C12 ---- *)

\* partition_path is the path just handed to unlink, for partition
\* p_partition - 1
Unlinking == ppc = "p_loop" /\ p_partition > 0

\* number of separators at the end of the string s
RECURSIVE TrailingSlashes(_)
TrailingSlashes(s) ==
  IF s = <<>> \/ s[Len(s)] # "/" THEN 0
  ELSE 1 + TrailingSlashes(SubSeq(s, 1, Len(s) - 1))

\* the string s without the separators at its end
Stem(s) == SubSeq(s, 1, Len(s) - TrailingSlashes(s))

\* the part of the unlinked path before the basename
BeforeBase == SubSeq(partition_path, 1, partition_base)

\* the unlinked path is the directory, one separator, the basename
OneSeparator ==
  /\ partition_path =
       Stem(path) \o <<"/">>
       \o addb_smap_partition_basename(p_partition - 1, partition_base_n)
  /\ Stem(BeforeBase) = Stem(path)
  /\ TrailingSlashes(BeforeBase) = 1

\* C12 as stated: for every directory string and partition, the unlinked path
\* has exactly one separator between directory and basename, and the
\* directory string with a separator added yields the same path.
C12_OneSeparatorAlways ==
  Unlinking =>
    /\ OneSeparator
    /\ (path = <<>> \/ path[Len(path)] # "/")
         => partition_path = PartitionPath(path \o <<"/">>, p_partition - 1)

\* C12 amended: for every non-empty directory string that does not end in
\* more than one separator, the unlinked path has exactly one separator
\* between directory and basename, and a non-empty string without a
\* separator at its end yields the same path as the string with one added.
\* A string that ends in several separators keeps them all, and the empty
\* string gets none: its path is the bare basename.
C12_OneSeparatorNonEmpty ==
  Unlinking =>
    /\ (path # <<>> /\ TrailingSlashes(path) <= 1) => OneSeparator
    /\ (path # <<>> /\ path[Len(path)] # "/")
         => partition_path = PartitionPath(path \o <<"/">>, p_partition - 1)
    /\ path # <<>>
         => /\ Stem(BeforeBase) = Stem(path)
            /\ TrailingSlashes(BeforeBase) =
                 IF TrailingSlashes(path) = 0 THEN 1
                 ELSE TrailingSlashes(path)
    /\ path = <<>>
         => partition_path =
              addb_smap_partition_basename(p_partition - 1, partition_base_n)

C12_Witness ==
  /\ Unlinking
  /\ path = <<"d", "b">>
  /\ p_partition = 3
  /\ partition_path = <<"d", "b", "/", "p", "2">>
  /\ partition_path = PartitionPath(<<"d", "b", "/">>, 2)

(* ---- C17 ---- *)

\* C17: the buffer has path_n + 80 bytes; the basename is written at offset
\* path_n with room for 80 bytes when no separator was appended, at offset
\* path_n + 1 with room for 79 when one was; offset plus room is the size of
\* the buffer for every partition, and what is written, NUL included, fits.
C17_BasenameFitsBuffer ==
  ppc = "p_loop" =>
    /\ buf_n = Len(path) + 80
    /\ partition_base + partition_base_n = buf_n
    /\ \/ partition_base = Len(path) /\ partition_base_n = 80
       \/ partition_base = Len(path) + 1 /\ partition_base_n = 79
    /\ (partition_base = Len(path) + 1)
         <=> (path # <<>> /\ path[Len(path)] # "/")
    /\ Len(partition_path) + 1 <= buf_n

C17_Witness ==
  /\ Unlinking
  /\ p_partition = ADDB_GMAP_PARTITIONS_MAX
  /\ path = <<"d">>
  /\ partition_base = 2 /\ partition_base_n = 79
  /\ buf_n = 81
====
